---------------------------- MODULE Spec2Model ----------------------------
(***************************************************************************)
(* A model of the risk engine of advanced-risk-analytics:                  *)
(*   src/src/risk_calculator.py   RiskCalculator                           *)
(*   src/src/portfolio_manager.py PortfolioManager                         *)
(*                                                                         *)
(* Numbers.  The program computes in IEEE doubles.  The model computes in  *)
(* exact extended rationals <<n, d>>: d > 0 is the rational n/d in lowest  *)
(* terms, and d = 0 holds the three values a float division by zero        *)
(* produces without raising (warnings are silenced at line 10 of both      *)
(* files): <<1,0>> = inf, <<-1,0>> = -inf, <<0,0>> = nan.  A square root   *)
(* is kept symbolically: a value is a surd [q |-> rational, rad |->        *)
(* rational] standing for q * sqrt(rad).  Rounding is not modelled.        *)
(***************************************************************************)
EXTENDS Integers, Sequences, FiniteSets, TLC

----------------------------------------------------------------------------
(* Integer helpers.                                                        *)

AbsInt(x) == IF x < 0 THEN -x ELSE x

SgnInt(x) == IF x < 0 THEN -1 ELSE IF x = 0 THEN 0 ELSE 1

RECURSIVE Gcd(_, _)
Gcd(a, b) == IF b = 0 THEN a ELSE Gcd(b, a % b)

----------------------------------------------------------------------------
(* Extended rationals (the model of a Python/numpy float).                 *)

Norm(n, d) ==
    IF d = 0 THEN <<SgnInt(n), 0>>
    ELSE LET s == IF d < 0 THEN -1 ELSE 1
             g == Gcd(AbsInt(n), AbsInt(d))
         IN  <<(s * n) \div g, (s * d) \div g>>

R(n, d) == Norm(n, d)

I(n) == <<n, 1>>

Zero == <<0, 1>>

One == <<1, 1>>

NaN == <<0, 0>>

PosInf == <<1, 0>>

IsNaN(a) == a[2] = 0 /\ a[1] = 0

IsFinite(a) == a[2] # 0

RNeg(a) == <<-a[1], a[2]>>

RAbs(a) == <<AbsInt(a[1]), a[2]>>

RSgn(a) == SgnInt(a[1])

RAdd(a, b) ==
    IF a[2] = 0 \/ b[2] = 0
    THEN IF IsNaN(a) \/ IsNaN(b) THEN NaN
         ELSE IF a[2] = 0 /\ b[2] = 0
              THEN (IF a[1] = b[1] THEN a ELSE NaN)
              ELSE IF a[2] = 0 THEN a ELSE b
    ELSE LET g == Gcd(a[2], b[2])
         IN  Norm(a[1] * (b[2] \div g) + b[1] * (a[2] \div g),
                  (a[2] \div g) * b[2])

RSub(a, b) == RAdd(a, RNeg(b))

RMul(a, b) ==
    IF a[2] = 0 \/ b[2] = 0
    THEN <<SgnInt(a[1]) * SgnInt(b[1]), 0>>
    ELSE LET g1 == Gcd(AbsInt(a[1]), b[2])
             g2 == Gcd(AbsInt(b[1]), a[2])
         IN  Norm((a[1] \div g1) * (b[1] \div g2),
                  (a[2] \div g2) * (b[2] \div g1))

(* Float division: x / 0 is inf, -inf or nan and never raises; x / inf = 0 *)
RDiv(a, b) ==
    IF b[2] = 0
    THEN (IF a[2] = 0 \/ b[1] = 0 THEN NaN ELSE Zero)
    ELSE IF b[1] = 0 THEN <<SgnInt(a[1]), 0>>
    ELSE IF a[2] = 0 THEN <<a[1] * SgnInt(b[1]), 0>>
    ELSE RMul(a, Norm(b[2], b[1]))

(* a < b; every comparison with nan is false.                              *)
RLess(a, b) ==
    IF IsNaN(a) \/ IsNaN(b) THEN FALSE
    ELSE IF a[2] = 0 THEN a[1] < 0 /\ b # a
    ELSE IF b[2] = 0 THEN b[1] > 0
    ELSE LET g == Gcd(a[2], b[2])
         IN  a[1] * (b[2] \div g) < b[1] * (a[2] \div g)

RLeq(a, b) == ~IsNaN(a) /\ ~IsNaN(b) /\ (a = b \/ RLess(a, b))

RECURSIVE RSum(_)
RSum(s) == IF s = <<>> THEN Zero ELSE RAdd(Head(s), RSum(Tail(s)))

RFloor(a) == a[1] \div a[2]

----------------------------------------------------------------------------
(* Surds q * sqrt(rad): the model of np.sqrt applied to a float.           *)
(* Normal form: rad > 0 finite; zero is [q |-> Zero, rad |-> One]; inf and *)
(* nan are carried in q with rad = One.                                    *)

SNorm(s) ==
    IF ~IsFinite(s.q) THEN [q |-> s.q, rad |-> One]
    ELSE IF IsNaN(s.rad) \/ RSgn(s.rad) < 0 THEN [q |-> NaN, rad |-> One]
    ELSE IF ~IsFinite(s.rad) THEN [q |-> RMul(s.q, s.rad), rad |-> One]
    ELSE IF s.q = Zero \/ s.rad = Zero THEN [q |-> Zero, rad |-> One]
    ELSE s

SRat(r) == SNorm([q |-> r, rad |-> One])

SZero == SRat(Zero)

SNaN == SRat(NaN)

(* np.sqrt(r): nan for r < 0 or r = nan, no exception.                     *)
SSqrt(r) == SNorm([q |-> One, rad |-> r])

SIsNaN(s) == IsNaN(s.q)

SIsFinite(s) == IsFinite(s.q)

SSgn(s) == RSgn(s.q)

SNeg(s) == [q |-> RNeg(s.q), rad |-> s.rad]

SAbs(s) == [q |-> RAbs(s.q), rad |-> s.rad]

SMul(a, b) == SNorm([q |-> RMul(a.q, b.q), rad |-> RMul(a.rad, b.rad)])

SScale(s, r) == SMul(s, SRat(r))

SDiv(a, b) ==
    IF SIsFinite(b) /\ SSgn(b) # 0
    THEN SNorm([q |-> RDiv(a.q, b.q), rad |-> RDiv(a.rad, b.rad)])
    ELSE SNorm([q |-> RDiv(a.q, b.q), rad |-> One])

(* Sums are only ever taken of values that share a radicand (or are zero,  *)
(* inf or nan); a sum of two different radicands has no case here and is   *)
(* an evaluation error, never a silently wrong value.                      *)
SAdd(a, b) ==
    CASE ~SIsFinite(a) \/ ~SIsFinite(b) -> SNorm([q |-> RAdd(a.q, b.q), rad |-> One])
      [] SIsFinite(a) /\ SIsFinite(b) /\ SSgn(a) = 0 -> b
      [] SIsFinite(a) /\ SIsFinite(b) /\ SSgn(a) # 0 /\ SSgn(b) = 0 -> a
      [] SIsFinite(a) /\ SIsFinite(b) /\ SSgn(a) # 0 /\ SSgn(b) # 0 /\ a.rad = b.rad
            -> SNorm([q |-> RAdd(a.q, b.q), rad |-> a.rad])

SSub(a, b) == SAdd(a, SNeg(b))

(* a < b as real numbers; false when either is nan.  Two values of one   *)
(* sign and different radicands are compared through the squares:         *)
(* a < b iff (a.q / b.q)^2 < b.rad / a.rad, for positive a and b.         *)
SLess(a, b) ==
    IF SIsNaN(a) \/ SIsNaN(b) THEN FALSE
    ELSE IF a.rad = b.rad THEN RLess(a.q, b.q)
    ELSE IF SSgn(a) # SSgn(b) THEN SSgn(a) < SSgn(b)
    ELSE IF SSgn(a) = 0 THEN FALSE
    ELSE IF ~SIsFinite(a) \/ ~SIsFinite(b) THEN RLess(a.q, b.q)
    ELSE LET ratio == RDiv(a.q, b.q)
             lhs   == RMul(ratio, ratio)
             rhs   == RDiv(b.rad, a.rad)
         IN  IF SSgn(a) > 0 THEN RLess(lhs, rhs) ELSE RLess(rhs, lhs)

SEq(a, b) == ~SIsNaN(a) /\ ~SIsNaN(b) /\ ~SLess(a, b) /\ ~SLess(b, a)

SLeq(a, b) == SLess(a, b) \/ SEq(a, b)

RECURSIVE SSum(_)
SSum(s) == IF s = <<>> THEN SZero ELSE SAdd(Head(s), SSum(Tail(s)))

----------------------------------------------------------------------------
(* Sequences, and the pandas / numpy reductions the program uses.          *)

Last(s) == s[Len(s)]

Range(s) == {s[i] : i \in DOMAIN s}

(* A column of a table stored as a sequence of rows.                       *)
Column(table, j) == [i \in 1..Len(table) |-> table[i][j]]

(* Series.mean(): nan for an empty series.                                 *)
Mean(s) == RDiv(RSum(s), I(Len(s)))

(* The sample covariance of two equally long series, ddof = 1: nan with    *)
(* fewer than two observations.                                            *)
SampleCov(x, y) ==
    IF Len(x) < 2 THEN NaN
    ELSE LET mx == Mean(x)
             my == Mean(y)
         IN  RDiv(RSum([i \in 1..Len(x) |->
                          RMul(RSub(x[i], mx), RSub(y[i], my))]),
                  I(Len(x) - 1))

Variance(s) == SampleCov(s, s)

(* Series.std(), ddof = 1.                                                 *)
Std(s) == SSqrt(Variance(s))

(* DataFrame.cov(): the matrix of pairwise sample covariances.             *)
CovMatrix(table, n) ==
    [i \in 1..n |-> [j \in 1..n |->
        SampleCov(Column(table, i), Column(table, j))]]

MatScale(m, r) == [i \in DOMAIN m |-> [j \in DOMAIN m[i] |-> RMul(m[i][j], r)]]

MatAdd(a, b) == [i \in DOMAIN a |-> [j \in DOMAIN a[i] |-> RAdd(a[i][j], b[i][j])]]

(* np.dot(return_vec, return_vec.T) for a column vector: the outer product *)
Outer(v) == [i \in DOMAIN v |-> [j \in DOMAIN v |-> RMul(v[i], v[j])]]

(* np.dot of two vectors.                                                  *)
Dot(x, y) == RSum([i \in DOMAIN x |-> RMul(x[i], y[i])])

(* np.dot(matrix, vector).                                                 *)
MatVec(m, w) == [i \in DOMAIN m |-> Dot(m[i], w)]

(* np.dot(weights.T, np.dot(cov_matrix, weights))                          *)
QuadForm(m, w) == Dot(w, MatVec(m, w))

IsSymmetric(m) == \A i \in DOMAIN m : \A j \in DOMAIN m : m[i][j] = m[j][i]

(* Insertion of x into an ascending sequence of surds, and the sort.       *)
RECURSIVE SInsert(_, _)
SInsert(x, s) ==
    IF s = <<>> THEN <<x>>
    ELSE IF SLess(Head(s), x) THEN <<Head(s)>> \o SInsert(x, Tail(s))
    ELSE <<x>> \o s

RECURSIVE SSort(_)
SSort(s) == IF s = <<>> THEN <<>> ELSE SInsert(Head(s), SSort(Tail(s)))

(* np.percentile(a, q) raises ValueError for q outside [0, 100] and fails  *)
(* on an empty sample (there is no element to index).                      *)
PercentileRaises(a, q) ==
    \/ ~(RLeq(Zero, q) /\ RLeq(q, I(100)))
    \/ Len(a) = 0

(* np.percentile(a, q), method "linear": the value at the virtual index    *)
(* (N-1) * q / 100 of the sorted sample, interpolated between neighbours;  *)
(* nan when the sample holds a nan.                                        *)
Percentile(a, q) ==
    IF \E i \in DOMAIN a : SIsNaN(a[i]) THEN SNaN
    ELSE LET sorted == SSort(a)
             vi     == RMul(I(Len(a) - 1), RDiv(q, I(100)))
             lo     == RFloor(vi)
             hi     == IF lo + 1 > Len(a) - 1 THEN Len(a) - 1 ELSE lo + 1
             g      == RSub(vi, I(lo))
         IN  SAdd(sorted[lo + 1],
                  SScale(SSub(sorted[hi + 1], sorted[lo + 1]), g))

----------------------------------------------------------------------------
(* Bounds of the model.                                                    *)

(* Rounds of the bootstrap loop; the program runs 1000 (line 48).          *)
BootstrapRounds == 2

(* Calls of calculate_all_var_methods in one behaviour.                    *)
MaxCalls == 2

(* The random source has this many states.                                 *)
RngStates == 8

----------------------------------------------------------------------------
(* The state of the program.                                               *)

VARIABLES
    assets,            \* PortfolioManager.assets: the column labels
    returns_data,      \* PortfolioManager.returns_data: rows of per-asset returns
    recent_prices,     \* PortfolioManager.price_data.iloc[-1]
    weights,           \* PortfolioManager.weights
    value,             \* PortfolioManager.value
    confidence_level,  \* RiskCalculator.confidence_level
    time_horizon,      \* RiskCalculator.time_horizon
    simulations,       \* RiskCalculator.simulations
    alpha,             \* RiskCalculator.alpha
    rng,               \* the state of numpy's global random source
    pc,                \* where calculate_all_var_methods stands
    results,           \* the dict literal of lines 28-36, as far as it is built
    outcome,           \* how the last call ended: "none", "returned", "raised"
    returned,          \* the mapping the caller received from the last call
    raised_in,         \* the computation whose exception ended the last call
    call_seed,         \* rng when the current (or last) call started
    call_weights,      \* the portfolio's weights when that call started
    mc_seed,           \* rng when that call's Monte Carlo simulation started
    history,           \* the completed calls, oldest first
    calls_left         \* calls the caller will still make

portfolio == <<assets, returns_data, recent_prices, weights, value>>

config == <<confidence_level, time_horizon, simulations, alpha>>

call == <<pc, results, outcome, returned, raised_in, call_seed, call_weights,
          mc_seed, history, calls_left>>

vars == <<portfolio, config, rng, call>>

----------------------------------------------------------------------------
(* PortfolioManager (src/src/portfolio_manager.py).                        *)

NAssets == Len(assets)

(* _calculate_weights(method).  The risk-parity weights (1/std_i) over the *)
(* sum of 1/std_j are rational only when the columns' deviations agree, in *)
(* which case they are equal weights; the model offers the method only     *)
(* then (RiskParityExact), other tables keep their current weights.        *)
RiskParityExact ==
    /\ Len(returns_data) >= 2
    /\ \A j \in 1..NAssets :
          /\ Variance(Column(returns_data, j)) = Variance(Column(returns_data, 1))
          /\ RSgn(Variance(Column(returns_data, j))) > 0

EqualWeights == [i \in 1..NAssets |-> R(1, NAssets)]

calculate_weights(method) ==
    CASE method = "equal" -> EqualWeights
      [] method = "market_cap" ->
            [i \in 1..NAssets |-> RDiv(recent_prices[i], RSum(recent_prices))]
      [] method = "risk_parity" -> IF RiskParityExact THEN EqualWeights ELSE weights
      [] OTHER -> EqualWeights

Methods == {"equal", "market_cap", "risk_parity", "other"}

get_returns == returns_data

(* A calculator that copied the weights when it was constructed.          *)
get_weights_copied == [i \in 1..NAssets |-> R(1, NAssets)]

get_weights == weights

(* (self.returns_data * self.weights).sum(axis=1)                          *)
portfolio_returns_of(table, w) == [i \in 1..Len(table) |-> Dot(table[i], w)]

get_portfolio_returns == portfolio_returns_of(returns_data, get_weights)

----------------------------------------------------------------------------
(* The random source: np.random's global state, shared by np.random.choice *)
(* and scipy's rvs.  A full-period congruential generator stands for it.   *)

(* A generator that seeding does not reset: its stream also depends on    *)
(* how many calls have drawn from it.                                      *)
NextRngUnseeded(s) == (5 * s + 3 + calls_left) % RngStates

NextRng(s) == (5 * s + 3) % RngStates

RECURSIVE RngAfter(_, _)
RngAfter(s, k) == IF k <= 0 THEN s ELSE RngAfter(NextRng(s), k - 1)

(* np.random.seed(s)                                                       *)
Seeds == {0, 1}

----------------------------------------------------------------------------
(* RiskCalculator (src/src/risk_calculator.py).                            *)

TradingDays == I(252)

lambda_param == R(47, 50)

risk_free_rate == R(1, 50)

(* The percentile rank alpha * 100 of lines 52 and 89.                     *)
AlphaPct(a) == RMul(a, I(100))

(* Lines 44-50: the returns scaled by sqrt(time_horizon), then the pool of *)
(* BootstrapRounds samples of len(returns) draws with replacement, each    *)
(* draw taking one state of the random source.                             *)
(* Returns taken about their mean before scaling.                         *)
scaled_returns_demeaned(rets, h) ==
    [i \in 1..Len(rets) |-> SScale(SSqrt(I(h)), RSub(rets[i], Mean(rets)))]

scaled_returns(rets, h) == [i \in 1..Len(rets) |-> SScale(SSqrt(I(h)), rets[i])]

bootstrap_samples(rets, h, seed) ==
    [k \in 1..(BootstrapRounds * Len(rets)) |->
        scaled_returns(rets, h)[(RngAfter(seed, k - 1) % Len(rets)) + 1]]

HistoricalDraws(rets) == BootstrapRounds * Len(rets)

HistoricalRaises(rets, h, a, seed) ==
    PercentileRaises(bootstrap_samples(rets, h, seed), AlphaPct(a))

(* _calculate_historical_var, lines 40-53.                                 *)
calculate_historical_var(rets, h, a, v, seed) ==
    SAbs(SScale(Percentile(bootstrap_samples(rets, h, seed), AlphaPct(a)), I(v)))

(* The covariance after the first k passes of the loop of lines 103-105,   *)
(* which visits rows 2, 3, ... (iloc[1], iloc[2], ...) in row order.       *)
(* A loop that starts at the first row: range(0, n_obs - 1).              *)
RECURSIVE ewma_from_first_row(_, _, _)
ewma_from_first_row(table, n, k) ==
    IF k = 0 THEN MatScale(CovMatrix(table, n), I(252))
    ELSE MatAdd(MatScale(ewma_from_first_row(table, n, k - 1), R(47, 50)),
                MatScale(Outer(table[k]), R(3, 50)))

RECURSIVE ewma_after(_, _, _)
ewma_after(table, n, k) ==
    IF k = 0 THEN MatScale(CovMatrix(table, n), TradingDays)
    ELSE MatAdd(MatScale(ewma_after(table, n, k - 1), lambda_param),
                MatScale(Outer(table[k + 1]), RSub(One, lambda_param)))

(* _calculate_ewma_covariance, lines 92-107.                               *)
calculate_ewma_covariance(table, n) ==
    ewma_after(table, n, IF Len(table) = 0 THEN 0 ELSE Len(table) - 1)

(* stats.norm.ppf at the tail probabilities the model uses, in thousandths *)
(* (scipy; nan outside [0, 1], -inf at 0 and inf at 1).                    *)
norm_ppf(a) ==
    CASE a = R(1, 100)  -> R(-2326, 1000)
      [] a = R(1, 20)   -> R(-1645, 1000)
      [] a = R(1, 10)   -> R(-1282, 1000)
      [] a = R(1, 2)    -> Zero
      [] a = R(9, 10)   -> R(1282, 1000)
      [] a = Zero       -> RNeg(PosInf)
      [] a = One        -> PosInf
      [] OTHER          -> NaN

(* _calculate_parametric_var, lines 55-70.                                 *)
calculate_parametric_var(table, n, w, h, a, v) ==
    LET cov_matrix         == calculate_ewma_covariance(table, n)
        portfolio_variance == QuadForm(cov_matrix, w)
        portfolio_vol      == SSqrt(RMul(portfolio_variance, I(h)))
        z_score            == norm_ppf(a)
    IN  SAbs(SScale(SScale(portfolio_vol, z_score), I(v)))

(* _calculate_volatility, lines 109-111.                                   *)
calculate_volatility(rets) == SMul(Std(rets), SSqrt(TradingDays))

(* _calculate_sharpe_ratio, lines 113-116.                                 *)
calculate_sharpe_ratio(rets) ==
    LET excess_returns == RSub(RMul(Mean(rets), TradingDays), risk_free_rate)
    IN  SDiv(SRat(excess_returns), calculate_volatility(rets))

(* (1 + returns).cumprod(), line 120.                                      *)
RECURSIVE cumulative_returns(_, _)
cumulative_returns(rets, t) ==
    IF t = 0 THEN One
    ELSE RMul(cumulative_returns(rets, t - 1), RAdd(One, rets[t]))

(* cumulative_returns.expanding().max(), line 121: the maximum of the      *)
(* first t values.                                                         *)
(* The maximum of the whole curve in place of the running maximum.        *)
global_max(rets, t) ==
    LET W == {cumulative_returns(rets, u) : u \in 1..Len(rets)}
    IN  CHOOSE m \in W : \A x \in W : RLeq(x, m)

RECURSIVE rolling_max(_, _)
rolling_max(rets, t) ==
    IF t = 1 THEN cumulative_returns(rets, 1)
    ELSE IF RLess(rolling_max(rets, t - 1), cumulative_returns(rets, t))
         THEN cumulative_returns(rets, t)
         ELSE rolling_max(rets, t - 1)

(* Line 122.                                                               *)
drawdown(rets, t) ==
    RDiv(RSub(cumulative_returns(rets, t), rolling_max(rets, t)),
         rolling_max(rets, t))

(* Series.min(): the least value that is not nan; nan when there is none.  *)
SeriesMin(S) ==
    LET present == {x \in S : ~IsNaN(x)}
    IN  IF present = {} THEN NaN
        ELSE CHOOSE m \in present : \A x \in present : RLeq(m, x)

(* _calculate_max_drawdown, lines 118-123.                                 *)
calculate_max_drawdown(rets) ==
    SRat(RAbs(SeriesMin({drawdown(rets, t) : t \in 1..Len(rets)})))

(* The weight of asset i read from the other end of the weight vector.    *)
component_of_misindexed(cov_matrix, w, v, i) ==
    SScale(SScale(SDiv(SRat(Dot(cov_matrix[i], w)), SSqrt(QuadForm(cov_matrix, w))),
                  w[Len(w) + 1 - i]),
           I(v))

(* _calculate_component_var, lines 125-138: one entry per column label.    *)
component_of(cov_matrix, w, v, i) ==
    LET portfolio_var == SSqrt(QuadForm(cov_matrix, w))
        marginal_var  == SDiv(SRat(Dot(cov_matrix[i], w)), portfolio_var)
        component_var == SScale(marginal_var, w[i])
    IN  SScale(component_var, I(v))

calculate_component_var(table, cols, w, v) ==
    LET cov_matrix == MatScale(CovMatrix(table, Len(cols)), TradingDays)
    IN  [a \in Range(cols) |->
            component_of(cov_matrix, w, v,
                         CHOOSE i \in 1..Len(cols) :
                            cols[i] = a /\ \A j \in (i+1)..Len(cols) : cols[j] # a)]

(* stats.t.fit and stats.t.rvs are scipy's.  The fit is a deterministic    *)
(* function of the series and is modelled by its location (the mean) and a *)
(* scale (the spread of the series); a draw is the location plus the scale *)
(* times a score read off the random source's state.  On a series without  *)
(* spread (constant, or shorter than two) the optimiser's outcome is not   *)
(* determined by the source: it may fail or return (FitDegenerate).        *)
SeriesMax(S) == CHOOSE m \in S : \A x \in S : RLeq(x, m)

FitDegenerate(rets) ==
    Len(rets) < 2 \/ \A i \in DOMAIN rets : rets[i] = rets[1]

t_fit(rets) ==
    IF Len(rets) = 0 THEN [loc |-> NaN, scale |-> NaN]
    ELSE [loc   |-> Mean(rets),
          scale |-> RSub(SeriesMax(Range(rets)), SeriesMin(Range(rets)))]

t_score(s) == I((s % 5) - 2)

t_rvs(params, s) == RAdd(params.loc, RMul(params.scale, t_score(s)))

MonteCarloDraws(h, sims) == IF h > 0 /\ sims > 0 THEN h * sims ELSE 0

(* Lines 82-87: scenario k sums time_horizon draws and is priced.          *)
scenarios(rets, h, sims, v, seed) ==
    [k \in 1..(IF sims > 0 THEN sims ELSE 0) |->
        SRat(RMul(RSum([j \in 1..h |->
                          t_rvs(t_fit(rets), RngAfter(seed, (k - 1) * h + j - 1))]),
                  I(v)))]

(* stats.t.rvs(size=time_horizon) raises for a negative size, once the     *)
(* loop runs at all; np.percentile raises as above.                        *)
MonteCarloRaises(rets, h, sims, a, v, seed) ==
    \/ sims > 0 /\ h < 0
    \/ PercentileRaises([k \in 1..(IF sims > 0 THEN sims ELSE 0) |-> SZero], AlphaPct(a))

(* _calculate_monte_carlo_var, lines 72-90.                                *)
calculate_monte_carlo_var(rets, h, sims, a, v, seed) ==
    SAbs(Percentile(scenarios(rets, h, sims, v, seed), AlphaPct(a)))

----------------------------------------------------------------------------
(* calculate_all_var_methods, lines 22-38.  The dict literal evaluates its *)
(* seven values in the order written; an exception in any of them unwinds  *)
(* the call (there is no try/except in the file) and the values computed   *)
(* so far are dropped.  The program is single-threaded: nothing else runs  *)
(* while a call is active.                                                 *)

Keys == <<"historical", "parametric", "monte_carlo", "volatility",
          "sharpe_ratio", "max_drawdown", "var_breakdown">>

NoMapping == <<>>

Put(f, k, v) == [x \in (DOMAIN f) \cup {k} |-> IF x = k THEN v ELSE f[x]]

Idle == pc = "idle"

NextKey(key) ==
    IF key = Last(Keys) THEN "return"
    ELSE Keys[(CHOOSE i \in DOMAIN Keys : Keys[i] = key) + 1]

(* A handler that swallows the exception and substitutes a default.        *)
RaiseSwallowed(key) ==
    /\ pc' = NextKey(key)
    /\ results' = Put(results, key, SZero)
    /\ UNCHANGED <<outcome, returned, raised_in>>

(* An exception leaves the call: the caller receives no mapping.           *)
Raise(key) ==
    /\ pc' = "idle"
    /\ outcome' = "raised"
    /\ raised_in' = key
    /\ results' = NoMapping
    /\ returned' = NoMapping

(* The value of one entry is computed and the next entry is up.            *)
Store(key, v, next) ==
    /\ pc' = next
    /\ results' = Put(results, key, v)
    /\ UNCHANGED <<outcome, returned, raised_in>>

Call ==
    /\ Idle
    /\ calls_left > 0
    /\ calls_left' = calls_left - 1
    /\ pc' = "historical"
    /\ results' = NoMapping
    /\ outcome' = "none"
    /\ returned' = NoMapping
    /\ raised_in' = "none"
    /\ call_seed' = rng
    /\ call_weights' = weights
    /\ mc_seed' = rng
    /\ UNCHANGED <<portfolio, config, rng, history>>

Historical ==
    /\ pc = "historical"
    /\ IF HistoricalRaises(get_portfolio_returns, time_horizon, alpha, rng)
       THEN Raise("historical") /\ UNCHANGED rng
       ELSE /\ Store("historical",
                     calculate_historical_var(get_portfolio_returns, time_horizon,
                                              alpha, value, rng),
                     "parametric")
            /\ rng' = RngAfter(rng, HistoricalDraws(get_portfolio_returns))
    /\ UNCHANGED <<portfolio, config, call_seed, call_weights, mc_seed, history,
                   calls_left>>

Parametric ==
    /\ pc = "parametric"
    /\ Store("parametric",
             calculate_parametric_var(get_returns, NAssets, get_weights,
                                      time_horizon, alpha, value),
             "monte_carlo")
    /\ UNCHANGED <<portfolio, config, rng, call_seed, call_weights, mc_seed,
                   history, calls_left>>

MonteCarlo ==
    /\ pc = "monte_carlo"
    /\ mc_seed' = rng
    /\ \E fit_fails \in IF FitDegenerate(get_portfolio_returns)
                        THEN {TRUE, FALSE} ELSE {FALSE} :
         IF fit_fails \/ MonteCarloRaises(get_portfolio_returns, time_horizon,
                                          simulations, alpha, value, rng)
         THEN Raise("monte_carlo") /\ UNCHANGED rng
         ELSE /\ Store("monte_carlo",
                       calculate_monte_carlo_var(get_portfolio_returns, time_horizon,
                                                 simulations, alpha, value, rng),
                       "volatility")
              /\ rng' = RngAfter(rng, MonteCarloDraws(time_horizon, simulations))
    /\ UNCHANGED <<portfolio, config, call_seed, call_weights, history, calls_left>>

Volatility ==
    /\ pc = "volatility"
    /\ Store("volatility", calculate_volatility(get_portfolio_returns), "sharpe_ratio")
    /\ UNCHANGED <<portfolio, config, rng, call_seed, call_weights, mc_seed,
                   history, calls_left>>

SharpeRatio ==
    /\ pc = "sharpe_ratio"
    /\ Store("sharpe_ratio", calculate_sharpe_ratio(get_portfolio_returns),
             "max_drawdown")
    /\ UNCHANGED <<portfolio, config, rng, call_seed, call_weights, mc_seed,
                   history, calls_left>>

MaxDrawdown ==
    /\ pc = "max_drawdown"
    /\ Store("max_drawdown", calculate_max_drawdown(get_portfolio_returns),
             "var_breakdown")
    /\ UNCHANGED <<portfolio, config, rng, call_seed, call_weights, mc_seed,
                   history, calls_left>>

ComponentVar ==
    /\ pc = "var_breakdown"
    /\ Store("var_breakdown",
             calculate_component_var(get_returns, assets, get_weights, value),
             "return")
    /\ UNCHANGED <<portfolio, config, rng, call_seed, call_weights, mc_seed,
                   history, calls_left>>

(* The record of a completed call, kept for comparing calls.               *)
CallRecord ==
    [seed |-> call_seed, weights |-> call_weights, mc_seed |-> mc_seed,
     historical |-> results["historical"], monte_carlo |-> results["monte_carlo"]]

(* return results, line 38.                                                *)
Return ==
    /\ pc = "return"
    /\ pc' = "idle"
    /\ outcome' = "returned"
    /\ returned' = results
    /\ results' = NoMapping
    /\ history' = IF Len(history) < 2 THEN Append(history, CallRecord)
                  ELSE <<history[2], CallRecord>>
    /\ UNCHANGED <<portfolio, config, rng, raised_in, call_seed, call_weights,
                   mc_seed, calls_left>>

(* PortfolioManager.rebalance_portfolio(method), lines 89-91.              *)
Rebalance ==
    /\ Idle
    /\ \E method \in Methods : weights' = calculate_weights(method)
    /\ UNCHANGED <<assets, returns_data, recent_prices, value, config, rng, call>>

(* np.random.seed(s) by the caller, between calls.                         *)
Seed ==
    /\ Idle
    /\ \E s \in Seeds : rng' = s
    /\ UNCHANGED <<portfolio, config, call>>

Next ==
    \/ Call
    \/ Historical
    \/ Parametric
    \/ MonteCarlo
    \/ Volatility
    \/ SharpeRatio
    \/ MaxDrawdown
    \/ ComponentVar
    \/ Return
    \/ Rebalance
    \/ Seed

----------------------------------------------------------------------------
(* The states after construction.  PortfolioManager.__init__ (lines 15-24) *)
(* stores the assets and the value, takes prices and returns from the      *)
(* download and sets equal weights; RiskCalculator.__init__ (lines 15-20)  *)
(* stores its arguments unchecked and sets alpha = 1 - confidence_level.   *)

Tables(n_assets, n_obs, Vals) == [1..n_obs -> [1..n_assets -> Vals]]

InitPortfolio(Labels, T, Prices, Values) ==
    /\ assets = Labels
    /\ returns_data \in T
    /\ recent_prices \in Prices
    /\ weights = EqualWeights
    /\ value \in Values

(* Configs: triples <<confidence_level, time_horizon, simulations>>.       *)
InitCalculator(Configs) ==
    /\ \E c \in Configs :
          /\ confidence_level = c[1]
          /\ time_horizon = c[2]
          /\ simulations = c[3]
    /\ alpha = RSub(One, confidence_level)

InitCall(StartSeeds, budget) ==
    /\ rng \in StartSeeds
    /\ pc = "idle"
    /\ results = NoMapping
    /\ outcome = "none"
    /\ returned = NoMapping
    /\ raised_in = "none"
    /\ call_seed = rng
    /\ call_weights = weights
    /\ mc_seed = rng
    /\ history = <<>>
    /\ calls_left = budget

(* Spec: two assets, short return tables (none, one or two rows), every    *)
(* kind of configuration, valid or not, and up to MaxCalls calls with      *)
(* rebalancing and reseeding between them.                                 *)
MaxObs == 2

MainConfigs ==
    { <<R(19, 20), 1, 1>>,                        \* valid
      <<Zero, 1, 1>>, <<R(3, 2), 1, 1>>,          \* confidence level not in (0, 1)
      <<R(19, 20), 0, 1>>, <<R(19, 20), -1, 1>>,  \* time horizon <= 0
      <<R(19, 20), 1, 0>> }                       \* simulations <= 0

Init ==
    /\ InitPortfolio(<<"A", "B">>,
                     UNION {Tables(2, n, {I(0), I(1)}) : n \in 0..MaxObs},
                     {<<I(1), I(3)>>}, {100})
    /\ InitCalculator(MainConfigs)
    /\ InitCall({0}, MaxCalls)

Spec == Init /\ [][Next]_vars

----------------------------------------------------------------------------
(* What the call in progress (or the last call) read.                      *)

CallReturns == portfolio_returns_of(returns_data, call_weights)

KeySet == Range(Keys)

(* The keys whose values are computed when control stands at p.            *)
KeysBefore(p) ==
    IF p = "return" THEN KeySet
    ELSE IF p = "idle" THEN {}
    ELSE {Keys[i] : i \in {j \in DOMAIN Keys :
                              j < (CHOOSE k \in DOMAIN Keys : Keys[k] = p)}}

ValidConfig ==
    /\ RLess(Zero, confidence_level) /\ RLess(confidence_level, One)
    /\ time_horizon >= 1
    /\ simulations >= 1

----------------------------------------------------------------------------
(* C1.  calculate_all_var_methods is all-or-nothing: a call in which one   *)
(* of the seven computations fails ends with an exception and the caller   *)
(* holds no mapping; a mapping is returned only when no computation        *)
(* failed, and then it has exactly the seven keys.  While the call runs,   *)
(* the values computed so far are exactly those of the keys already        *)
(* passed, none skipped and none filled in.                                *)
C1_AllOrNothing ==
    /\ outcome # "returned" => returned = NoMapping
    /\ outcome = "raised" => raised_in \in KeySet /\ results = NoMapping
    /\ DOMAIN results = KeysBefore(pc)
    /\ outcome = "returned" =>
          /\ DOMAIN returned = KeySet
          /\ ~HistoricalRaises(CallReturns, time_horizon, alpha, call_seed)
          /\ ~MonteCarloRaises(CallReturns, time_horizon, simulations, alpha,
                               value, mc_seed)

(* The Monte Carlo simulation failed after the historical and parametric   *)
(* values had been computed, and the caller received nothing.              *)
C1_Witness ==
    /\ outcome = "raised"
    /\ raised_in = "monte_carlo"
    /\ ~HistoricalRaises(CallReturns, time_horizon, alpha, call_seed)
    /\ returned = NoMapping

(* C2.  An estimator whose divisor (or radicand) is zero or non-positive   *)
(* fails instead of returning a value: no sharpe_ratio is computed from a  *)
(* return series of zero deviation, no parametric VaR from a non-positive  *)
(* w'.Cov.w, no var_breakdown from a zero portfolio volatility.            *)
ZeroDeviation(rets) == Variance(rets) = Zero

NonPositive(x) == RLeq(x, Zero)

C2_DegenerateInputFails ==
    ValidConfig =>
    /\ "sharpe_ratio" \in DOMAIN results => ~ZeroDeviation(CallReturns)
    /\ "parametric" \in DOMAIN results =>
          ~NonPositive(QuadForm(calculate_ewma_covariance(returns_data, NAssets),
                                call_weights))
    /\ "var_breakdown" \in DOMAIN results =>
          ~(QuadForm(MatScale(CovMatrix(returns_data, NAssets), TradingDays),
                     call_weights) = Zero)

(* C3.  A calculator with an invalid configuration never returns a result  *)
(* mapping.                                                                *)
C3_InvalidConfigurationFails == outcome = "returned" => ValidConfig

C9_Step ==
    /\ config' = config
    /\ alpha' = RSub(One, confidence_level')
    /\ (pc # "idle" \/ pc' # "idle") => portfolio' = portfolio
    /\ (pc = "return" /\ pc' = "idle") =>
          /\ returned'["volatility"] =
                calculate_volatility(portfolio_returns_of(returns_data', weights'))
          /\ returned'["parametric"] =
                calculate_parametric_var(returns_data', NAssets, weights',
                                         time_horizon, alpha, value')
          /\ returned'["var_breakdown"] =
                calculate_component_var(returns_data', assets', weights', value')

C9_Frame == [][C9_Step]_vars

(* A second call returned after a rebalance changed the weights, and its   *)
(* volatility is not the one the first call's weights give.                *)
C9_Witness ==
    /\ outcome = "returned"
    /\ Len(history) = 2
    /\ history[1].weights # history[2].weights
    /\ weights = history[2].weights
    /\ returned["volatility"] #
          calculate_volatility(portfolio_returns_of(returns_data, history[1].weights))

----------------------------------------------------------------------------
(* SpecSeries: one asset (the portfolio return series is the column), all  *)
(* series of 1..MaxLen returns over a few values, valid configurations.    *)

MaxLen == 3

SeriesVals == {R(-1, 5), Zero, R(1, 20), R(1, 10)}

SeriesLevels == {R(1, 2), R(19, 20), R(99, 100)}

InitSeries ==
    /\ InitPortfolio(<<"A">>,
                     UNION {Tables(1, n, SeriesVals) : n \in 1..MaxLen},
                     {<<I(1)>>}, {100})
    /\ InitCalculator(SeriesLevels \X (1..2) \X {2})
    /\ InitCall({0}, 1)

SpecSeries == InitSeries /\ [][Next]_vars

(* C4.  Monotonicity in confidence: with the portfolio, the horizon and    *)
(* the drawn sample fixed, each of the three VaR values at a higher valid  *)
(* confidence level is at least the value the call computed.               *)
C4_MonotoneInConfidence ==
    (pc = "return" /\ Len(CallReturns) >= 2) =>
       \A c2 \in SeriesLevels :
          RLess(confidence_level, c2) =>
             /\ SLeq(results["historical"],
                     calculate_historical_var(CallReturns, time_horizon,
                                              RSub(One, c2), value, call_seed))
             /\ SLeq(results["parametric"],
                     calculate_parametric_var(returns_data, NAssets, call_weights,
                                              time_horizon, RSub(One, c2), value))
             /\ SLeq(results["monte_carlo"],
                     calculate_monte_carlo_var(CallReturns, time_horizon,
                                               simulations, RSub(One, c2), value,
                                               mc_seed))

(* C5.  For a non-empty series with every 1 + return positive, the value   *)
(* of max_drawdown is the largest relative fall of the wealth curve W      *)
(* below its running maximum M_t = max of W_1..W_t; it lies in [0, 1), is  *)
(* 0 exactly when W never falls below an earlier value, and is 0.20 for    *)
(* the returns 0.10, -0.20, 0.05.                                          *)
Wealth(rets, t) == cumulative_returns(rets, t)

PrefixMax(rets, t) ==
    LET W == {Wealth(rets, u) : u \in 1..t}
    IN  CHOOSE m \in W : \A x \in W : RLeq(x, m)

LargestFall(rets) ==
    LET F == {RDiv(RSub(PrefixMax(rets, t), Wealth(rets, t)), PrefixMax(rets, t)) :
                 t \in 1..Len(rets)}
    IN  CHOOSE m \in F : \A x \in F : RLeq(x, m)

NeverFalls(rets) ==
    \A t \in 1..Len(rets) : \A u \in 1..t : RLeq(Wealth(rets, u), Wealth(rets, t))

GrowthPositive(rets) ==
    Len(rets) >= 1 /\ \A t \in 1..Len(rets) : RLess(Zero, RAdd(One, rets[t]))

ExampleReturns == <<R(1, 10), R(-1, 5), R(1, 20)>>

C5_MaxDrawdown ==
    (pc = "var_breakdown" /\ GrowthPositive(CallReturns)) =>
       LET dd == results["max_drawdown"]
       IN  /\ dd = SRat(LargestFall(CallReturns))
           /\ SLeq(SZero, dd) /\ SLess(dd, SRat(One))
           /\ (dd = SZero) <=> NeverFalls(CallReturns)
           /\ CallReturns = ExampleReturns => dd = SRat(R(1, 5))

(* The scenario of the specification has been computed: 0.20.              *)
C5_Witness ==
    /\ "max_drawdown" \in DOMAIN results
    /\ CallReturns = ExampleReturns
    /\ results["max_drawdown"] = SRat(R(1, 5))

(* C8 as stated.  For a constant return series the historical VaR is       *)
(* (approximately) zero: within a thousandth of the portfolio value.       *)
IsConstant(rets) == Len(rets) >= 1 /\ \A i \in DOMAIN rets : rets[i] = rets[1]

ApproxZero(x) == SLess(SAbs(x), SRat(R(value, 1000)))

----------------------------------------------------------------------------
(* SpecMatrix: two assets, all return tables of 2..MatObs rows over two    *)
(* values, a portfolio whose weights are any of a few vectors (negative    *)
(* entries and sums other than 1 included), one valid configuration.       *)

MatObs == 3

MatVals == {I(-1), I(2)}

MatWeights == {<<R(1, 2), R(1, 2)>>, <<I(-1), I(2)>>, <<I(2), I(1)>>}

InitMatrix ==
    /\ assets = <<"A", "B">>
    /\ returns_data \in UNION {Tables(2, n, MatVals) : n \in 2..MatObs}
    /\ recent_prices = <<I(1), I(3)>>
    /\ weights \in MatWeights
    /\ value = 100
    /\ InitCalculator({<<R(19, 20), 1, 1>>})
    /\ InitCall({0}, 1)

SpecMatrix == InitMatrix /\ [][Next]_vars

(* C6.  Euler decomposition: when w'.Cov.w > 0, var_breakdown has one      *)
(* entry per asset column, entry i times portfolioVol is                   *)
(* w_i * (Cov_row_i . w) * value, and the entries sum to                   *)
(* portfolioVol * value, portfolioVol = sqrt(w'.Cov.w); equivalently the   *)
(* sum of w_i * (Cov_row_i . w) is w'.Cov.w.                               *)
SampleCov252 == MatScale(CovMatrix(returns_data, NAssets), TradingDays)

PortfolioVariance == QuadForm(SampleCov252, call_weights)

C6_EulerSum ==
    (pc = "return" /\ RLess(Zero, PortfolioVariance)) =>
       LET breakdown    == results["var_breakdown"]
           portfolioVol == SSqrt(PortfolioVariance)
       IN  /\ DOMAIN breakdown = Range(assets)
           /\ \A i \in 1..NAssets :
                 SEq(SMul(breakdown[assets[i]], portfolioVol),
                     SRat(RMul(RMul(call_weights[i],
                                    Dot(SampleCov252[i], call_weights)),
                               I(value))))
           /\ SEq(SSum([i \in 1..NAssets |-> breakdown[assets[i]]]),
                  SScale(portfolioVol, I(value)))
           /\ RSum([i \in 1..NAssets |->
                      RMul(call_weights[i], Dot(SampleCov252[i], call_weights))])
                 = PortfolioVariance

(* A breakdown has been computed for weights with a short position that do *)
(* not sum to 1, and its entries differ.                                   *)
C6_Witness ==
    /\ "var_breakdown" \in DOMAIN results
    /\ RLess(Zero, PortfolioVariance)
    /\ call_weights = <<I(-1), I(2)>>
    /\ ~SEq(results["var_breakdown"]["A"], results["var_breakdown"]["B"])
    /\ SSgn(results["var_breakdown"]["A"]) < 0

(* C10.  On a table of n >= 2 rows the EWMA covariance starts from         *)
(* 252 x the sample covariance and applies the update once for each of     *)
(* the rows 2..n, in row order, to the raw return vector: the result is    *)
(* lambda^(n-1) Cov_0 + (1-lambda) SUM_{i=2..n} lambda^(n-i) r_i r_i',     *)
(* every intermediate matrix is symmetric, and the parametric VaR is       *)
(* computed from that matrix.                                              *)
RECURSIVE RPow(_, _)
RPow(x, k) == IF k = 0 THEN One ELSE RMul(x, RPow(x, k - 1))

RECURSIVE MatSum(_, _)
MatSum(ms, zero) == IF ms = <<>> THEN zero ELSE MatAdd(Head(ms), MatSum(Tail(ms), zero))

ZeroMatrix(n) == [i \in 1..n |-> [j \in 1..n |-> Zero]]

(* The closed form, over the rows listed in `order` (oldest first).        *)
EwmaClosedForm(table, n, order) ==
    LET m == Len(order)
    IN  MatAdd(MatScale(MatScale(CovMatrix(table, n), TradingDays),
                        RPow(lambda_param, m)),
               MatSum([k \in 1..m |->
                          MatScale(Outer(table[order[k]]),
                                   RMul(RSub(One, lambda_param),
                                        RPow(lambda_param, m - k)))],
                      ZeroMatrix(n)))

RowOrder(table) == [k \in 1..(Len(table) - 1) |-> k + 1]

ReverseOrder(table) == [k \in 1..(Len(table) - 1) |-> Len(table) + 1 - k]

C10_EwmaRecursion ==
    (pc = "monte_carlo" /\ Len(returns_data) >= 2) =>
       LET n_obs == Len(returns_data)
           final == calculate_ewma_covariance(returns_data, NAssets)
       IN  /\ final = EwmaClosedForm(returns_data, NAssets, RowOrder(returns_data))
           /\ \A k \in 0..(n_obs - 1) :
                 IsSymmetric(ewma_after(returns_data, NAssets, k))
           /\ SEq(results["parametric"],
                     SAbs(SScale(SSqrt(RMul(QuadForm(
                                    EwmaClosedForm(returns_data, NAssets,
                                                   RowOrder(returns_data)),
                                    call_weights), I(time_horizon))),
                                 RMul(norm_ppf(alpha), I(value)))))

(* A parametric VaR has been computed from a table of three rows on which  *)
(* the order of the updates matters: the same rows taken in reverse order  *)
(* give another matrix.                                                    *)
C10_Witness ==
    /\ "parametric" \in DOMAIN results
    /\ Len(returns_data) = 3
    /\ SSgn(results["parametric"]) > 0
    /\ EwmaClosedForm(returns_data, NAssets, ReverseOrder(returns_data))
          # calculate_ewma_covariance(returns_data, NAssets)

=============================================================================
